---- MODULE Spec2Model ----
(***************************************************************************)
(* Posture Guard: posture_analyzer.py                                      *)
(*                                                                         *)
(* Model of PostureAnalyzer (angle computation, facing classifier, squat   *)
(* and sitting evaluators, the video and image drivers) and of main.       *)
(*                                                                         *)
(* Numbers.  Landmark coordinates are normalised floats in [0, 1]; the     *)
(* model takes them on a grid of tenths, so the integer i stands for the   *)
(* coordinate i / 10.  Angles are floats in degrees; the model keeps the   *)
(* order of an angle relative to every whole degree exactly: the value     *)
(* 2 * k stands for exactly k degrees and 2 * k + 1 for any angle strictly *)
(* between k and k + 1 degrees (Deg below).  NaN is the float not-a-number.*)
(* A timestamp is the exact quotient <<numerator, denominator>>.           *)
(***************************************************************************)
EXTENDS Integers, Sequences, FiniteSets, TLC

\* ---------------------------------------------------------------- bounds
\* Largest grid coordinate of a landmark (tenths of the image width/height).
MaxCoord == 2
\* Largest number of frames a video holds.
MaxFrames == 3

\* ------------------------------------------------------------ float model
\* The not-a-number float, the result of 0.0 / 0.0 in numpy.
NaN == -1

\* k whole degrees in the angle encoding of this module.
Deg(k) == 2 * k

abs(x) == IF x < 0 THEN -x ELSE x

\* Python's chained comparison lo <= a <= hi on floats: False when a is NaN.
between(lo, a, hi) == a # NaN /\ lo <= a /\ a <= hi

\* Python's a > b on floats: False when a is NaN.
greater(a, b) == a # NaN /\ a > b

\* Fixed-point scale of the squared cosines in CosSq.
CosScale == 100000

\* CosSq[k + 1] = sign(cos k) * cos(k degrees)^2 * CosScale, k = 0 .. 180,
\* the table np.arccos / np.degrees are evaluated with.
CosSq ==
  << 100000, 99970, 99878, 99726, 99513, 99240, 98907, 98515, 98063, 97553,
     96985, 96359, 95677, 94940, 94147, 93301, 92402, 91452, 90451, 89401,
     88302, 87157, 85967, 84733, 83457, 82139, 80783, 79389, 77960, 76496,
     75000, 73474, 71919, 70337, 68730, 67101, 65451, 63782, 62096, 60396,
     58682, 56959, 55226, 53488, 51745, 50000, 48255, 46512, 44774, 43041,
     41318, 39604, 37904, 36218, 34549, 32899, 31270, 29663, 28081, 26526,
     25000, 23504, 22040, 20611, 19217, 17861, 16543, 15267, 14033, 12843,
     11698, 10599, 9549, 8548, 7598, 6699, 5853, 5060, 4323, 3641,
     3015, 2447, 1937, 1485, 1093, 760, 487, 274, 122, 30,
     0, -30, -122, -274, -487, -760, -1093, -1485, -1937, -2447,
     -3015, -3641, -4323, -5060, -5853, -6699, -7598, -8548, -9549, -10599,
     -11698, -12843, -14033, -15267, -16543, -17861, -19217, -20611, -22040, -23504,
     -25000, -26526, -28081, -29663, -31270, -32899, -34549, -36218, -37904, -39604,
     -41318, -43041, -44774, -46512, -48255, -50000, -51745, -53488, -55226, -56959,
     -58682, -60396, -62096, -63782, -65451, -67101, -68730, -70337, -71919, -73474,
     -75000, -76496, -77960, -79389, -80783, -82139, -83457, -84733, -85967, -87157,
     -88302, -89401, -90451, -91452, -92402, -93301, -94147, -94940, -95677, -96359,
     -96985, -97553, -98063, -98515, -98907, -99240, -99513, -99726, -99878, -99970,
     -100000 >>

\* np.dot of two 2-vectors.
dot(u, v) == u[1] * v[1] + u[2] * v[2]

\* np.linalg.norm squared.
normSq(u) == dot(u, u)

\* The largest k in lo..hi with cos k >= c, by bisection (CosSq decreases);
\* cos lo >= c is given.
RECURSIVE floor_degree(_, _, _, _)
floor_degree(s, n, lo, hi) ==
  IF lo = hi THEN lo
  ELSE LET mid == (lo + hi + 1) \div 2
       IN IF CosSq[mid + 1] * n >= s * CosScale
          THEN floor_degree(s, n, mid, hi)
          ELSE floor_degree(s, n, lo, mid - 1)

\* np.degrees(np.arccos(c)) for the cosine c with sign(c) * c^2 = s / n,
\* n > 0 and -1 <= c <= 1: the whole degree k with k <= angle < k + 1,
\* marked exact or not.
arccos_degrees(s, n) ==
  LET k == floor_degree(s, n, 0, 180)
  IN IF CosSq[k + 1] * n = s * CosScale THEN Deg(k) ELSE Deg(k) + 1

\* np.clip(c, -1.0, 1.0) on the cosine kept as s / n.
clip(s, n) == IF s > n THEN n ELSE IF s < -n THEN -n ELSE s

\* PostureAnalyzer.calculate_angle: the angle at vertex b between the rays
\* b->a and b->c.  A zero-length vector makes the quotient 0.0 / 0.0 = nan
\* (numpy warns, it does not raise); np.clip, np.arccos and np.degrees all
\* pass nan through.
calculate_angle(a, b, c) ==
  LET ba == <<a[1] - b[1], a[2] - b[2]>>
      bc == <<c[1] - b[1], c[2] - b[2]>>
      d  == dot(ba, bc)
      n  == normSq(ba) * normSq(bc)
  IN IF n = 0 THEN NaN ELSE arccos_degrees(clip(d * abs(d), n), n)

\* ------------------------------------------------------------- landmarks
\* Python's None.
None == [none |-> TRUE]

\* The pose landmarks the analyzer reads (mp_pose.PoseLandmark members).
Joints ==
  {"NOSE", "LEFT_EAR", "RIGHT_EAR", "LEFT_SHOULDER", "RIGHT_SHOULDER",
   "LEFT_HIP", "RIGHT_HIP", "LEFT_KNEE", "RIGHT_KNEE",
   "LEFT_ANKLE", "RIGHT_ANKLE", "LEFT_FOOT_INDEX", "RIGHT_FOOT_INDEX"}

\* landmarks[i] raises IndexError when the landmark list has no entry i.
IndexError(landmarks, joints) == \E j \in joints : j \notin DOMAIN landmarks

\* -------------------------------------------------------- facing classifier
detect_facing_direction_joints == {"LEFT_SHOULDER", "RIGHT_SHOULDER", "NOSE"}

detect_facing_direction_and(landmarks) ==
  LET left_shoulder  == landmarks["LEFT_SHOULDER"][1]
      right_shoulder == landmarks["RIGHT_SHOULDER"][1]
      nose           == landmarks["NOSE"][1]
  IN IF nose > right_shoulder /\ nose > left_shoulder THEN "right" ELSE "left"

\* PostureAnalyzer.detect_facing_direction
detect_facing_direction(landmarks) ==
  LET left_shoulder  == landmarks["LEFT_SHOULDER"][1]
      right_shoulder == landmarks["RIGHT_SHOULDER"][1]
      nose           == landmarks["NOSE"][1]
  IN IF nose > right_shoulder \/ nose > left_shoulder THEN "right" ELSE "left"

\* ------------------------------------------------------------ squat rules
KNEE_TOE_WARNING == "Knee extends beyond toe - risk of injury"
BACK_ANGLE_WARNING ==
  "Back angle too upright or too low - maintain natural forward lean (30 to 60 deg wrt thigh)"
SQUAT_DEPTH_WARNING ==
  "Squat depth needs improvement - aim for 90-degree knee bend (80 to 120 deg)"

squat_joints_swapped_hip(facing) ==
  IF facing = "left"
  THEN [hip |-> "LEFT_HIP", knee |-> "LEFT_KNEE", ankle |-> "LEFT_ANKLE",
        toe |-> "LEFT_FOOT_INDEX", shoulder |-> "LEFT_SHOULDER"]
  ELSE [hip |-> "LEFT_HIP", knee |-> "RIGHT_KNEE", ankle |-> "RIGHT_ANKLE",
        toe |-> "RIGHT_FOOT_INDEX", shoulder |-> "RIGHT_SHOULDER"]

\* analyze_squat_posture, the side selection: the landmark read for each
\* local of the method.
squat_joints(facing) ==
  IF facing = "left"
  THEN [hip |-> "LEFT_HIP", knee |-> "LEFT_KNEE", ankle |-> "LEFT_ANKLE",
        toe |-> "LEFT_FOOT_INDEX", shoulder |-> "LEFT_SHOULDER"]
  ELSE [hip |-> "RIGHT_HIP", knee |-> "RIGHT_KNEE", ankle |-> "RIGHT_ANKLE",
        toe |-> "RIGHT_FOOT_INDEX", shoulder |-> "RIGHT_SHOULDER"]

\* The landmarks analyze_squat_posture reads for a facing.
squat_required(facing) ==
  LET j == squat_joints(facing)
  IN {j.hip, j.knee, j.ankle, j.toe, j.shoulder}

\* analyze_squat_posture up to the two angle computations: the locals.
squat_locals(landmarks, facing) ==
  LET j        == squat_joints(facing)
      hip      == landmarks[j.hip]
      knee     == landmarks[j.knee]
      ankle    == landmarks[j.ankle]
      toe      == landmarks[j.toe]
      shoulder == landmarks[j.shoulder]
  IN [knee |-> knee, toe |-> toe,
      knee_angle |-> calculate_angle(hip, knee, ankle),
      back_angle |-> calculate_angle(shoulder, hip, knee)]

squat_rules_flag_kept(facing, knee, toe, knee_angle, back_angle) ==
  LET c1 == \/ (facing = "right" /\ knee[1] > toe[1])
            \/ (facing = "left" /\ knee[1] < toe[1])
      c2 == ~between(Deg(30), back_angle, Deg(60))
      c3 == ~between(Deg(80), knee_angle, Deg(120))
      w1 == IF c1 THEN <<KNEE_TOE_WARNING>> ELSE <<>>
      w2 == IF c2 THEN Append(w1, BACK_ANGLE_WARNING) ELSE w1
      w3 == IF c3 THEN Append(w2, SQUAT_DEPTH_WARNING) ELSE w2
      g  == ~(c1 \/ c2)
  IN [isGoodPosture |-> g,
      feedback |-> IF g THEN "Good squat form" ELSE "Adjust your squat form",
      angles |-> [knee |-> knee_angle, back |-> back_angle],
      warnings |-> w3]

squat_rules_elif(facing, knee, toe, knee_angle, back_angle) ==
  LET c1 == \/ (facing = "right" /\ knee[1] > toe[1])
            \/ (facing = "left" /\ knee[1] < toe[1])
      c2 == ~c1 /\ ~between(Deg(30), back_angle, Deg(60))
      c3 == ~c1 /\ ~c2 /\ ~between(Deg(80), knee_angle, Deg(120))
      w1 == IF c1 THEN <<KNEE_TOE_WARNING>> ELSE <<>>
      w2 == IF c2 THEN Append(w1, BACK_ANGLE_WARNING) ELSE w1
      w3 == IF c3 THEN Append(w2, SQUAT_DEPTH_WARNING) ELSE w2
      g  == ~(c1 \/ c2 \/ c3)
  IN [isGoodPosture |-> g,
      feedback |-> IF g THEN "Good squat form" ELSE "Adjust your squat form",
      angles |-> [knee |-> knee_angle, back |-> back_angle],
      warnings |-> w3]

\* analyze_squat_posture from `warnings = []` on: the three rules, each an
\* independent `if` that appends its warning and clears is_good_posture.
\* round(angle, 1) is finer than the angle encoding resolves and keeps nan.
squat_rules(facing, knee, toe, knee_angle, back_angle) ==
  LET w0 == <<>>
      g0 == TRUE
      c1 == \/ (facing = "right" /\ knee[1] > toe[1])
            \/ (facing = "left" /\ knee[1] < toe[1])
      w1 == IF c1 THEN Append(w0, KNEE_TOE_WARNING) ELSE w0
      g1 == IF c1 THEN FALSE ELSE g0
      c2 == ~between(Deg(30), back_angle, Deg(60))
      w2 == IF c2 THEN Append(w1, BACK_ANGLE_WARNING) ELSE w1
      g2 == IF c2 THEN FALSE ELSE g1
      c3 == ~between(Deg(80), knee_angle, Deg(120))
      w3 == IF c3 THEN Append(w2, SQUAT_DEPTH_WARNING) ELSE w2
      g3 == IF c3 THEN FALSE ELSE g2
  IN [isGoodPosture |-> g3,
      feedback |-> IF g3 THEN "Good squat form" ELSE "Adjust your squat form",
      angles |-> [knee |-> knee_angle, back |-> back_angle],
      warnings |-> w3]

\* PostureAnalyzer.analyze_squat_posture
analyze_squat_posture(landmarks, facing) ==
  LET l == squat_locals(landmarks, facing)
  IN squat_rules(facing, l.knee, l.toe, l.knee_angle, l.back_angle)

\* ---------------------------------------------------------- sitting rules
HEAD_POSTURE_WARNING ==
  "Adjust head posture - align ears over shoulders (20 deg max)"
BACK_STRAIGHT_WARNING ==
  "Back not straight - maintain neutral spine (80 to 115 deg)"

\* analyze_sitting_posture, the side selection.
sitting_joints(facing) ==
  IF facing = "left"
  THEN [ear |-> "LEFT_EAR", shoulder |-> "LEFT_SHOULDER",
        hip |-> "LEFT_HIP", knee |-> "LEFT_KNEE"]
  ELSE [ear |-> "RIGHT_EAR", shoulder |-> "RIGHT_SHOULDER",
        hip |-> "RIGHT_HIP", knee |-> "RIGHT_KNEE"]

\* The landmarks analyze_sitting_posture reads for a facing.
sitting_required(facing) ==
  LET j == sitting_joints(facing)
  IN {j.ear, j.shoulder, j.hip, j.knee}

\* neck_angle = abs(ear[0] - shoulder[0]) * 100; the coordinates are tenths,
\* so the product is a whole number of degrees.
neck_proxy(ear, shoulder) == Deg((abs(ear[1] - shoulder[1]) * 100) \div 10)

\* analyze_sitting_posture up to the two angle computations: the locals.
sitting_locals(landmarks, facing) ==
  LET j        == sitting_joints(facing)
      ear      == landmarks[j.ear]
      shoulder == landmarks[j.shoulder]
      hip      == landmarks[j.hip]
      knee     == landmarks[j.knee]
  IN [ear |-> ear, shoulder |-> shoulder,
      neck_angle |-> neck_proxy(ear, shoulder),
      back_angle |-> calculate_angle(shoulder, hip, knee)]

sitting_rules_ge(neck_angle, back_angle) ==
  LET c1 == neck_angle >= Deg(10)
      w1 == IF c1 THEN <<HEAD_POSTURE_WARNING>> ELSE <<>>
      c2 == ~between(Deg(80), back_angle, Deg(115))
      w2 == IF c2 THEN Append(w1, BACK_STRAIGHT_WARNING) ELSE w1
      g  == ~(c1 \/ c2)
  IN [isGoodPosture |-> g,
      feedback |-> IF g THEN "Good sitting posture"
                        ELSE "Adjust your sitting position",
      angles |-> [neck |-> neck_angle, back |-> back_angle],
      warnings |-> w2]

\* analyze_sitting_posture from `warnings = []` on.
sitting_rules(neck_angle, back_angle) ==
  LET w0 == <<>>
      g0 == TRUE
      c1 == greater(neck_angle, Deg(10))
      w1 == IF c1 THEN Append(w0, HEAD_POSTURE_WARNING) ELSE w0
      g1 == IF c1 THEN FALSE ELSE g0
      c2 == ~between(Deg(80), back_angle, Deg(115))
      w2 == IF c2 THEN Append(w1, BACK_STRAIGHT_WARNING) ELSE w1
      g2 == IF c2 THEN FALSE ELSE g1
  IN [isGoodPosture |-> g2,
      feedback |-> IF g2 THEN "Good sitting posture"
                         ELSE "Adjust your sitting position",
      angles |-> [neck |-> neck_angle, back |-> back_angle],
      warnings |-> w2]

\* PostureAnalyzer.analyze_sitting_posture
analyze_sitting_posture(landmarks, facing) ==
  LET l == sitting_locals(landmarks, facing)
  IN sitting_rules(l.neck_angle, l.back_angle)

\* ------------------------------------------------------------------ inputs
Facings == {"left", "right"}

\* sys.argv[3]; main does not validate it, any other string takes the
\* `else` (sitting) branch of the drivers.
PostureTypes == {"squat", "sitting", "plank"}

\* cv2.CAP_PROP_FPS of the input video in hundredths of a frame per second
\* (0: the backend does not report a rate; 50: one frame every two seconds).
FpsValues == {0, 50, 2500, 2997}

Xs == 0..MaxCoord

\* One body side of a landmark list.
Pose(ear, shoulder, hip, knee, ankle, foot) ==
  [ear |-> ear, shoulder |-> shoulder, hip |-> hip, knee |-> knee,
   ankle |-> ankle, foot |-> foot]

\* The landmark list with nose n, left side l and right side r.
Build(n, l, r) ==
  [j \in Joints |->
     CASE j = "NOSE"             -> n
       [] j = "LEFT_EAR"         -> l.ear
       [] j = "RIGHT_EAR"        -> r.ear
       [] j = "LEFT_SHOULDER"    -> l.shoulder
       [] j = "RIGHT_SHOULDER"   -> r.shoulder
       [] j = "LEFT_HIP"         -> l.hip
       [] j = "RIGHT_HIP"        -> r.hip
       [] j = "LEFT_KNEE"        -> l.knee
       [] j = "RIGHT_KNEE"       -> r.knee
       [] j = "LEFT_ANKLE"       -> l.ankle
       [] j = "RIGHT_ANKLE"      -> r.ankle
       [] j = "LEFT_FOOT_INDEX"  -> l.foot
       [] j = "RIGHT_FOOT_INDEX" -> r.foot]

\* Side views on the grid: head and shoulder on row 0, hip on row 1, knee on
\* row 1 or 2, foot on row 2.
SidePoses ==
  [ear : Xs \X {0}, shoulder : Xs \X {0}, hip : Xs \X {1},
   knee : Xs \X {1, 2}, ankle : {<<1, 2>>}, foot : Xs \X {2}]

\* Thigh level, shin upright, trunk leaning 45 degrees, knee behind the toe.
SquatPose == Pose(<<1, 0>>, <<1, 0>>, <<0, 1>>, <<1, 1>>, <<1, 2>>, <<2, 2>>)
\* Trunk upright over a level thigh, ear over the shoulder.
SeatedPose == Pose(<<1, 0>>, <<1, 0>>, <<1, 1>>, <<2, 1>>, <<2, 2>>, <<2, 2>>)
\* Hip and knee detected at the same point, head forward.
CollapsedPose == Pose(<<0, 0>>, <<1, 0>>, <<1, 1>>, <<1, 1>>, <<1, 2>>, <<0, 2>>)

RefPoses == {SquatPose, CollapsedPose}

\* The landmark lists the evaluators are called with.
LandmarkSets ==
  {Build(n, l, r) : n \in Xs \X {0}, l \in SidePoses, r \in RefPoses}
  \cup {Build(n, l, r) : n \in Xs \X {0}, l \in RefPoses, r \in SidePoses}

\* Angle values at and next to every threshold of the rules.
AngleSamples ==
  {NaN, Deg(0), Deg(180)}
  \cup {Deg(k) + d : k \in {30, 60, 80, 115, 120}, d \in {-1, 0, 1}}

\* The landmark list lm without entry j.
WithoutJoint(lm, j) == [k \in (DOMAIN lm) \ {j} |-> lm[k]]

\* What pose.process reports for a frame: None, a full landmark list, or a
\* list with an entry missing.
Detections ==
  {None}
  \cup {Build(n, l, r) : n \in {<<0, 0>>, <<2, 0>>},
                         l \in {SquatPose, SeatedPose},
                         r \in {SquatPose, SeatedPose}}
  \cup {Build(<<2, 0>>, SeatedPose, CollapsedPose)}
  \cup {WithoutJoint(Build(<<2, 0>>, SeatedPose, SquatPose), j) :
          j \in {"NOSE", "RIGHT_KNEE", "LEFT_EAR"}}

\* ------------------------------------------------------------------- state
VARIABLES
  pc,                \* control: "main", "loop", "returned", "raised", "exit";
                     \* "call" when a method is called on its own
  input_is_video,    \* main: suffix of input_path in ['.mp4', '.avi', '.mov']
  posture_type,      \* main: sys.argv[3]
  cap_fps,           \* cap.get(cv2.CAP_PROP_FPS), in hundredths
  fps,               \* process_video: fps
  frame_count,       \* process_video: frame_count
  frames,            \* what pose.process reported for each frame read so far
  analysis_results,  \* process_video / process_image: analysis_results
  error,             \* the exception in flight ("" when none)
  stdout,            \* what main printed (None before)
  call,              \* the method called on its own ("none" before)
  landmarks,         \* results.pose_landmarks.landmark of the current frame
  facing,            \* facing
  locals,            \* the evaluator's locals after the angle computations
  analysis           \* analysis

vars == <<pc, input_is_video, posture_type, cap_fps, fps, frame_count, frames,
          analysis_results, error, stdout, call, landmarks, facing, locals,
          analysis>>

main_vars == <<input_is_video, posture_type, cap_fps>>

\* ------------------------------------------------------ the frame pipeline
\* draw_custom_landmarks reads both ends of every pose connection; every
\* landmark of Joints is the end of one.
draw_custom_landmarks_joints == Joints

\* The body of `if results.pose_landmarks:` up to the evaluator's return,
\* shared by process_video and process_image.
evaluate(lms, ptype) ==
  IF IndexError(lms, detect_facing_direction_joints)
  THEN [error |-> "IndexError", facing |-> None, locals |-> None,
        analysis |-> None]
  ELSE
    LET f == detect_facing_direction(lms)
    IN IF IndexError(lms, draw_custom_landmarks_joints)
       THEN [error |-> "IndexError", facing |-> f, locals |-> None,
             analysis |-> None]
       ELSE IF ptype = "squat"
       THEN IF IndexError(lms, squat_required(f))
            THEN [error |-> "IndexError", facing |-> f, locals |-> None,
                  analysis |-> None]
            ELSE [error |-> "", facing |-> f,
                  locals |-> squat_locals(lms, f),
                  analysis |-> analyze_squat_posture(lms, f)]
       ELSE IF IndexError(lms, sitting_required(f))
            THEN [error |-> "IndexError", facing |-> f, locals |-> None,
                  analysis |-> None]
            ELSE [error |-> "", facing |-> f,
                  locals |-> sitting_locals(lms, f),
                  analysis |-> analyze_sitting_posture(lms, f)]

stamp_squat(a, timestamp, ptype) ==
  [isGoodPosture |-> a.isGoodPosture, feedback |-> a.feedback,
   angles |-> a.angles, warnings |-> a.warnings,
   timestamp |-> timestamp, postureType |-> "squat"]

\* analysis['timestamp'] = ...; analysis['postureType'] = posture_type
stamp(a, timestamp, ptype) ==
  [isGoodPosture |-> a.isGoodPosture, feedback |-> a.feedback,
   angles |-> a.angles, warnings |-> a.warnings,
   timestamp |-> timestamp, postureType |-> ptype]

\* int(cap.get(cv2.CAP_PROP_FPS)): truncation of the reported rate.
int_fps(hundredths) == hundredths \div 100

\* main, video branch: process_video up to the `while`.
OpenVideo ==
  /\ pc = "main" /\ input_is_video
  /\ fps' = int_fps(cap_fps)
  /\ frame_count' = 0
  /\ analysis_results' = <<>>
  /\ pc' = "loop"
  /\ UNCHANGED <<main_vars, frames, error, stdout, call, landmarks, facing,
                 locals, analysis>>

\* One iteration of the `while` of process_video with ret true.
ReadFrame ==
  /\ pc = "loop" /\ Len(frames) < MaxFrames
  /\ \E detection \in Detections :
       /\ frame_count' = frame_count + 1
       /\ frames' = Append(frames, detection)
       /\ landmarks' = detection
       /\ IF detection = None
          THEN /\ UNCHANGED <<pc, analysis_results, error>>
               /\ facing' = None /\ locals' = None /\ analysis' = None
          ELSE LET o == evaluate(detection, posture_type)
               IN /\ facing' = o.facing
                  /\ locals' = o.locals
                  /\ IF o.error # ""
                     THEN /\ pc' = "raised" /\ error' = o.error
                          /\ analysis' = None
                          /\ UNCHANGED analysis_results
                     ELSE IF fps = 0
                     THEN /\ pc' = "raised" /\ error' = "ZeroDivisionError"
                          /\ analysis' = o.analysis
                          /\ UNCHANGED analysis_results
                     ELSE /\ analysis' = stamp(o.analysis,
                                               <<frame_count', fps>>,
                                               posture_type)
                          /\ analysis_results' =
                               Append(analysis_results, analysis')
                          /\ UNCHANGED <<pc, error>>
  /\ UNCHANGED <<main_vars, fps, stdout, call>>

\* cap.read() returns ret false: break, release, return analysis_results.
EndOfVideo ==
  /\ pc = "loop"
  /\ pc' = "returned"
  /\ UNCHANGED <<main_vars, fps, frame_count, frames, analysis_results, error,
                 stdout, call, landmarks, facing, locals, analysis>>

\* main, image branch: process_image.
ProcessImage ==
  /\ pc = "main" /\ ~input_is_video
  /\ \E detection \in Detections :
       /\ frames' = <<detection>>
       /\ landmarks' = detection
       /\ IF detection = None
          THEN /\ pc' = "returned" /\ analysis_results' = <<>>
               /\ facing' = None /\ locals' = None /\ analysis' = None
               /\ UNCHANGED error
          ELSE LET o == evaluate(detection, posture_type)
               IN /\ facing' = o.facing
                  /\ locals' = o.locals
                  /\ IF o.error # ""
                     THEN /\ pc' = "raised" /\ error' = o.error
                          /\ analysis' = None
                          /\ analysis_results' = <<>>
                     ELSE /\ analysis' = stamp(o.analysis, <<0, 1>>,
                                               posture_type)
                          /\ analysis_results' = <<analysis'>>
                          /\ pc' = "returned"
                          /\ UNCHANGED error
  /\ UNCHANGED <<main_vars, fps, frame_count, stdout, call>>

\* main: output_data
output_data(results) == [success |-> TRUE, analysis |-> results]

error_output_success(e) == [success |-> TRUE, analysis |-> <<>>]

\* main, except branch: error_output
error_output(e) == [success |-> FALSE, error |-> e]

\* main: print(json.dumps(output_data))
PrintOutput ==
  /\ pc = "returned"
  /\ stdout' = output_data(analysis_results)
  /\ pc' = "exit"
  /\ UNCHANGED <<main_vars, fps, frame_count, frames, analysis_results, error,
                 call, landmarks, facing, locals, analysis>>

\* main: except Exception as e: print(json.dumps(error_output)); sys.exit(1)
PrintError ==
  /\ pc = "raised"
  /\ stdout' = error_output(error)
  /\ pc' = "exit"
  /\ UNCHANGED <<main_vars, fps, frame_count, frames, analysis_results, error,
                 call, landmarks, facing, locals, analysis>>

Init ==
  /\ pc = "main"
  /\ input_is_video \in BOOLEAN
  /\ posture_type \in PostureTypes
  /\ cap_fps \in (IF input_is_video THEN FpsValues ELSE {0})
  /\ fps = 0
  /\ frame_count = 0
  /\ frames = <<>>
  /\ analysis_results = <<>>
  /\ error = ""
  /\ stdout = None
  /\ call = "none"
  /\ landmarks = None
  /\ facing = None
  /\ locals = None
  /\ analysis = None

Next ==
  \/ OpenVideo
  \/ ReadFrame
  \/ EndOfVideo
  \/ ProcessImage
  \/ PrintOutput
  \/ PrintError

Spec == Init /\ [][Next]_vars

\* ------------------------------------------- the methods called on their own
\* The pipeline variables while a method is called outside the drivers.
no_pipeline ==
  /\ pc = "call"
  /\ input_is_video = FALSE
  /\ posture_type = "squat"
  /\ cap_fps = 0
  /\ fps = 0
  /\ frame_count = 0
  /\ frames = <<>>
  /\ analysis_results = <<>>
  /\ error = ""
  /\ stdout = None

pipeline_vars == <<pc, input_is_video, posture_type, cap_fps, fps, frame_count,
                   frames, analysis_results, error, stdout>>

\* The arguments of the call: a landmark list and a facing; with no landmark
\* list the rules are entered with the locals given directly.
EvalInit ==
  /\ no_pipeline
  /\ call = "none"
  /\ landmarks \in LandmarkSets \cup {None}
  /\ facing \in Facings
  /\ locals = None
  /\ analysis = None

\* detect_facing_direction(landmarks)
CallDetectFacing ==
  /\ pc = "call" /\ call = "none" /\ landmarks # None
  /\ facing' = detect_facing_direction(landmarks)
  /\ call' = "detect_facing_direction"
  /\ UNCHANGED <<pipeline_vars, landmarks, locals, analysis>>

\* analyze_squat_posture(landmarks, facing)
CallAnalyzeSquat ==
  /\ pc = "call" /\ call = "none" /\ landmarks # None
  /\ locals' = squat_locals(landmarks, facing)
  /\ analysis' = analyze_squat_posture(landmarks, facing)
  /\ call' = "analyze_squat_posture"
  /\ UNCHANGED <<pipeline_vars, landmarks, facing>>

\* analyze_sitting_posture(landmarks, facing)
CallAnalyzeSitting ==
  /\ pc = "call" /\ call = "none" /\ landmarks # None
  /\ locals' = sitting_locals(landmarks, facing)
  /\ analysis' = analyze_sitting_posture(landmarks, facing)
  /\ call' = "analyze_sitting_posture"
  /\ UNCHANGED <<pipeline_vars, landmarks, facing>>

\* analyze_squat_posture from `warnings = []` on, with any float angles.
CallSquatRules ==
  /\ pc = "call" /\ call = "none" /\ landmarks = None
  /\ \E kx \in Xs, tx \in Xs, ka \in AngleSamples, ba \in AngleSamples :
       /\ locals' = [knee |-> <<kx, 1>>, toe |-> <<tx, 2>>,
                     knee_angle |-> ka, back_angle |-> ba]
       /\ analysis' = squat_rules(facing, <<kx, 1>>, <<tx, 2>>, ka, ba)
  /\ call' = "squat_rules"
  /\ UNCHANGED <<pipeline_vars, landmarks, facing>>

\* analyze_sitting_posture from `neck_angle = ...` on, with any float back
\* angle.
CallSittingRules ==
  /\ pc = "call" /\ call = "none" /\ landmarks = None
  /\ \E ex \in Xs, sx \in Xs, ba \in AngleSamples :
       /\ locals' = [ear |-> <<ex, 0>>, shoulder |-> <<sx, 0>>,
                     neck_angle |-> neck_proxy(<<ex, 0>>, <<sx, 0>>),
                     back_angle |-> ba]
       /\ analysis' = sitting_rules(neck_proxy(<<ex, 0>>, <<sx, 0>>), ba)
  /\ call' = "sitting_rules"
  /\ UNCHANGED <<pipeline_vars, landmarks, facing>>

EvalNext ==
  \/ CallDetectFacing
  \/ CallAnalyzeSquat
  \/ CallAnalyzeSitting
  \/ CallSquatRules
  \/ CallSittingRules

SpecEval == EvalInit /\ [][EvalNext]_vars

\* Both ways of running the analyzer: through main, or a method on its own.
SpecAll == (Init \/ EvalInit) /\ [][Next \/ EvalNext]_vars

\* ------------------------------------------------------------------ claims
\* Every evaluation result the program holds: the current one, the ones
\* collected by the driver, the ones printed.
Results ==
  (IF analysis = None THEN {} ELSE {analysis})
  \cup {analysis_results[i] : i \in 1..Len(analysis_results)}
  \cup (IF stdout # None /\ stdout.success
        THEN {stdout.analysis[i] : i \in 1..Len(stdout.analysis)}
        ELSE {})

\* The records the drivers collected and main printed.
Records ==
  {analysis_results[i] : i \in 1..Len(analysis_results)}
  \cup (IF stdout # None /\ stdout.success
        THEN {stdout.analysis[i] : i \in 1..Len(stdout.analysis)}
        ELSE {})

\* The frames read so far for which the detector reported landmarks.
DetectedIdx == {i \in 1..Len(frames) : frames[i] # None}

\* The position in the video of the i-th frame with landmarks.
NthDetected(i) ==
  CHOOSE p \in DetectedIdx : Cardinality({q \in DetectedIdx : q <= p}) = i

\* C1: in every result of either evaluator, and in every record the drivers
\* collect and main prints, isGoodPosture is true iff warnings is empty.
C1_GoodIffNoWarnings ==
  \A r \in Results : r.isGoodPosture <=> (r.warnings = <<>>)

\* A run of main that printed a good record and a record with warnings.
C1_Witness ==
  /\ pc = "exit" /\ stdout.success
  /\ \E i, j \in 1..Len(stdout.analysis) :
       /\ stdout.analysis[i].isGoodPosture
       /\ stdout.analysis[i].warnings = <<>>
       /\ ~stdout.analysis[j].isGoodPosture
       /\ stdout.analysis[j].warnings # <<>>

\* Every frame read so far came with no landmarks or with a full list.
WellFormedFrames ==
  \A i \in 1..Len(frames) : frames[i] = None \/ DOMAIN frames[i] = Joints

\* The verdict fields of a record.
Verdict(r) ==
  [isGoodPosture |-> r.isGoodPosture, feedback |-> r.feedback,
   angles |-> r.angles, warnings |-> r.warnings]

\* C2: for any video of well-formed frames process_video raises nothing and
\* holds exactly one result per frame that had landmarks, in frame order,
\* each the evaluation of that frame; frames without landmarks add none.
C2_OneResultPerDetectedFrame ==
  (input_is_video /\ pc \in {"loop", "returned", "raised", "exit"}
     /\ WellFormedFrames)
  => /\ pc # "raised" /\ error = ""
     /\ Len(analysis_results) = Cardinality(DetectedIdx)
     /\ \A i \in 1..Len(analysis_results) :
          Verdict(analysis_results[i])
            = evaluate(frames[NthDetected(i)], posture_type).analysis

\* C3: a record of process_video carries timestamp = frame_index / fps, with
\* frame_index the (1-based) position of its frame and fps the rate of the
\* video; the record of process_image carries timestamp 0.
C3_TimestampIsIndexOverFps ==
  \A i \in 1..Len(analysis_results) :
    LET t == analysis_results[i].timestamp
    IN IF input_is_video
       THEN t[1] * cap_fps = NthDetected(i) * 100 * t[2]
       ELSE t[1] = 0

\* C4: detect_facing_direction returns "right" when nose.x is strictly
\* greater than at least one shoulder x, and "left" otherwise.
C4_FacingRule ==
  call = "detect_facing_direction"
  => LET nose == landmarks["NOSE"][1]
         beyond == {j \in {"LEFT_SHOULDER", "RIGHT_SHOULDER"} :
                      nose > landmarks[j][1]}
     IN /\ facing \in {"left", "right"}
        /\ facing = "right" <=> beyond # {}
        /\ facing = "left" <=> beyond = {}

\* The nose is beyond exactly one of two different shoulders.
C4_Witness ==
  /\ call = "detect_facing_direction"
  /\ facing = "right"
  /\ landmarks["NOSE"][1] > landmarks["LEFT_SHOULDER"][1]
  /\ landmarks["NOSE"][1] <= landmarks["RIGHT_SHOULDER"][1]

\* An angle in degrees lies in the inclusive range [lo, hi].
InRange(a, lo, hi) == a \in Deg(lo)..Deg(hi)

\* C5: the squat warnings are exactly the rules of the table that hold, in
\* the order knee-over-toe, back-angle, squat-depth, none skipped; feedback
\* is "Good squat form" iff none holds.
C5_SquatRuleTable ==
  call \in {"analyze_squat_posture", "squat_rules"}
  => LET kneeOverToe ==
           \/ facing = "right" /\ locals.knee[1] > locals.toe[1]
           \/ facing = "left" /\ locals.knee[1] < locals.toe[1]
         backOut  == ~InRange(locals.back_angle, 30, 60)
         depthOut == ~InRange(locals.knee_angle, 80, 120)
         expected ==
           (IF kneeOverToe THEN <<KNEE_TOE_WARNING>> ELSE <<>>)
           \o (IF backOut THEN <<BACK_ANGLE_WARNING>> ELSE <<>>)
           \o (IF depthOut THEN <<SQUAT_DEPTH_WARNING>> ELSE <<>>)
     IN /\ analysis.warnings = expected
        /\ analysis.feedback = IF expected = <<>> THEN "Good squat form"
                                                  ELSE "Adjust your squat form"

\* A landmark list on which all three squat rules fire.
C5_Witness ==
  /\ call = "analyze_squat_posture"
  /\ analysis.warnings =
       <<KNEE_TOE_WARNING, BACK_ANGLE_WARNING, SQUAT_DEPTH_WARNING>>

\* C6: with neck_angle = |ear.x - shoulder.x| * 100 the head warning is
\* present iff neck_angle > 10, the back warning iff back_angle is outside
\* [80, 115], head before back; feedback is "Good sitting posture" iff
\* neither is present.
C6_SittingRuleTable ==
  call \in {"analyze_sitting_posture", "sitting_rules"}
  => LET offset   == locals.ear[1] - locals.shoulder[1]  \* in tenths
         neck     == (IF offset < 0 THEN -offset ELSE offset) * 10
         headOut  == neck > 10
         backOut  == ~InRange(locals.back_angle, 80, 115)
         expected ==
           (IF headOut THEN <<HEAD_POSTURE_WARNING>> ELSE <<>>)
           \o (IF backOut THEN <<BACK_STRAIGHT_WARNING>> ELSE <<>>)
     IN /\ analysis.warnings = expected
        /\ analysis.angles.neck = Deg(neck)
        /\ analysis.feedback =
             IF expected = <<>> THEN "Good sitting posture"
                                ELSE "Adjust your sitting position"

\* A landmark list with neck_angle exactly 10 that passes.
C6_Witness ==
  /\ call = "analyze_sitting_posture"
  /\ locals.neck_angle = Deg(10)
  /\ analysis.isGoodPosture
  /\ analysis.warnings = <<>>

\* C7: no evaluation result carries an undefined (nan) angle: a degenerate
\* triple yields a defined value or no result.
C7_NoUndefinedAngle ==
  \A r \in Results : \A k \in DOMAIN r.angles : r.angles[k] # NaN

\* The landmarks the facing classifier and then the selected evaluator read
\* from the list lms for posture type ptype.
RequiredJoints(lms, ptype) ==
  LET head == {"LEFT_SHOULDER", "RIGHT_SHOULDER", "NOSE"}
  IN IF ~(head \subseteq DOMAIN lms) THEN head
     ELSE LET right == \E j \in {"LEFT_SHOULDER", "RIGHT_SHOULDER"} :
                         lms["NOSE"][1] > lms[j][1]
              side == IF right THEN "RIGHT" ELSE "LEFT"
              body == IF ptype = "squat"
                      THEN {"HIP", "KNEE", "ANKLE", "FOOT_INDEX", "SHOULDER"}
                      ELSE {"EAR", "SHOULDER", "HIP", "KNEE"}
          IN head \cup {j \in Joints :
                          \E b \in body :
                            j = (IF side = "LEFT"
                                 THEN CASE b = "HIP" -> "LEFT_HIP"
                                        [] b = "KNEE" -> "LEFT_KNEE"
                                        [] b = "ANKLE" -> "LEFT_ANKLE"
                                        [] b = "FOOT_INDEX" -> "LEFT_FOOT_INDEX"
                                        [] b = "SHOULDER" -> "LEFT_SHOULDER"
                                        [] b = "EAR" -> "LEFT_EAR"
                                 ELSE CASE b = "HIP" -> "RIGHT_HIP"
                                        [] b = "KNEE" -> "RIGHT_KNEE"
                                        [] b = "ANKLE" -> "RIGHT_ANKLE"
                                        [] b = "FOOT_INDEX" -> "RIGHT_FOOT_INDEX"
                                        [] b = "SHOULDER" -> "RIGHT_SHOULDER"
                                        [] b = "EAR" -> "RIGHT_EAR")}

\* Frame i came with a landmark list that lacks a required landmark.
Malformed(i) ==
  /\ frames[i] # None
  /\ ~(RequiredJoints(frames[i], posture_type) \subseteq DOMAIN frames[i])

\* C8: a frame whose landmark list lacks a required landmark is rejected with
\* an error: it is the last frame read, the exception reaches main, no
\* result is added for it, and main prints success = false and no analysis.
C8_MalformedRejected ==
  \A i \in 1..Len(frames) :
    Malformed(i)
    => /\ i = Len(frames)
       /\ pc \in {"raised", "exit"}
       /\ error = "IndexError"
       /\ analysis = None
       /\ Len(analysis_results) < Cardinality(DetectedIdx)
       /\ pc = "exit" => /\ stdout.success = FALSE
                         /\ "analysis" \notin DOMAIN stdout

\* main has reported the rejection of a malformed second frame.
C8_Witness ==
  /\ pc = "exit"
  /\ Len(frames) = 2
  /\ frames[1] # None
  /\ Malformed(2)
  /\ "RIGHT_KNEE" \notin DOMAIN frames[2]
  /\ stdout.success = FALSE

\* The landmarks of the side a facing selects.
SameSide(f) ==
  IF f = "left"
  THEN {"LEFT_EAR", "LEFT_SHOULDER", "LEFT_HIP", "LEFT_KNEE", "LEFT_ANKLE",
        "LEFT_FOOT_INDEX"}
  ELSE {"RIGHT_EAR", "RIGHT_SHOULDER", "RIGHT_HIP", "RIGHT_KNEE",
        "RIGHT_ANKLE", "RIGHT_FOOT_INDEX"}

\* The evaluator `call` names, applied to a landmark list.
Evaluator(lms, f) ==
  IF call = "analyze_squat_posture" THEN analyze_squat_posture(lms, f)
  ELSE analyze_sitting_posture(lms, f)

GridPoints == Xs \X (0..2)

\* Landmark lists that agree with lms on the side f selects: one landmark
\* off that side moved anywhere, or the whole other side and the nose
\* replaced.
Variants(lms, f) ==
  {[lms EXCEPT ![j] = p] : j \in Joints \ SameSide(f), p \in GridPoints}
  \cup {[j \in Joints |-> IF j \in SameSide(f) THEN lms[j] ELSE other[j]] :
          other \in {Build(n, q, q) :
                       n \in {<<0, 0>>, <<2, 0>>},
                       q \in {SquatPose, SeatedPose, CollapsedPose}}}

\* C9: for a fixed facing and posture type the result depends only on the
\* landmarks of the selected side: landmark lists that agree on them give
\* identical results.
C9_SideSelection ==
  call \in {"analyze_squat_posture", "analyze_sitting_posture"}
  => \A v \in Variants(landmarks, facing) : Evaluator(v, facing) = analysis

\* A right-facing squat evaluation of a list whose two sides differ in
\* every landmark the evaluator reads.
C9_Witness ==
  /\ call = "analyze_squat_posture"
  /\ facing = "right"
  /\ landmarks["LEFT_HIP"] # landmarks["RIGHT_HIP"]
  /\ landmarks["LEFT_KNEE"] # landmarks["RIGHT_KNEE"]
  /\ landmarks["LEFT_SHOULDER"] # landmarks["RIGHT_SHOULDER"]
  /\ landmarks["LEFT_FOOT_INDEX"] # landmarks["RIGHT_FOOT_INDEX"]
  /\ analysis.isGoodPosture

SquatTexts ==
  {"Good squat form", "Adjust your squat form", KNEE_TOE_WARNING,
   BACK_ANGLE_WARNING, SQUAT_DEPTH_WARNING}

SittingTexts ==
  {"Good sitting posture", "Adjust your sitting position",
   HEAD_POSTURE_WARNING, BACK_STRAIGHT_WARNING}

\* The feedback and the warnings of a record.
Texts(r) == {r.feedback} \cup {r.warnings[i] : i \in 1..Len(r.warnings)}

\* C10: every record of the drivers carries the requested posture type and
\* comes from the rule set of that type: angle keys {knee, back} and squat
\* texts for "squat", angle keys {neck, back} and sitting texts for
\* "sitting".
C10_PostureTypeMatchesRules ==
  \A r \in Records :
    /\ r.postureType = posture_type
    /\ r.postureType = "squat"
         => DOMAIN r.angles = {"knee", "back"} /\ Texts(r) \subseteq SquatTexts
    /\ r.postureType = "sitting"
         => DOMAIN r.angles = {"neck", "back"}
            /\ Texts(r) \subseteq SittingTexts

\* main printed two sitting records of a video.
C10_Witness ==
  /\ pc = "exit" /\ input_is_video /\ posture_type = "sitting"
  /\ stdout.success
  /\ Len(stdout.analysis) = 2
  /\ \A i \in 1..2 : /\ stdout.analysis[i].postureType = "sitting"
                     /\ DOMAIN stdout.analysis[i].angles = {"neck", "back"}

====
